---- MODULE Spec2Model ----
(***************************************************************************)
(* Model of pyspread's chart dialog (src/pyspread/src/gui/_chart_dialog.py) *)
(*                                                                         *)
(* Python strings are modelled as sequences of one-character strings, so   *)
(* that slicing, stripping and formatting are computed as the code         *)
(* computes them.  Python indices are 0-based; sequences here are 1-based. *)
(***************************************************************************)
EXTENDS Integers, Sequences, FiniteSets, TLC

VARIABLES
    \* parse_dict_strings: the generator's frame
    code,           \* the argument
    i,              \* loop index; -1 while the name i is still unbound
    level,          \* bracket nesting counter
    chunk_start,    \* start of the chunk being scanned
    curr_paren,     \* the open quote character, or None
    chunks,         \* the chunks yielded so far
    ppc,            \* "idle" | "loop" | "done" | "error" | "call" | "returned"
    \* get_series_tuple: what the evaluation of its argument does, and the
    \* value returned
    evaluation,
    result_tuple,
    \* ChartDialog
    pages,          \* series_notebook: its pages, in order
    queue,          \* events posted with post_command_event, not yet handled
    chart_data,     \* figure.chart_data
    figure_code,    \* the string get_figure_code returned
    dstate,         \* "idle" | "open" | "closed"
    exc,            \* the exception that left the last call, or None
    last,           \* the last call and the calls it made, in order
    edits           \* number of widget edits so far

parse_vars == <<i, level, chunk_start, curr_paren, chunks>>
dialog_vars == <<pages, queue, chart_data, figure_code, dstate, edits>>
tuple_vars == <<evaluation, result_tuple>>
vars == <<code, parse_vars, ppc, tuple_vars, dialog_vars, exc, last>>

None == "None"

\* --------------------------------------------------------------------
\* Bounds of the model
\* --------------------------------------------------------------------

\* longest exhaustively enumerated argument of parse_dict_strings
MaxLen == 5

\* most notebook pages, the "+" page included
MaxPages == 3

\* most posted events waiting to be handled
MaxQueue == 2

\* most widget edits in one run of the dialog
MaxEdits == 1

\* --------------------------------------------------------------------
\* Python string primitives
\* --------------------------------------------------------------------

Min(a, b) == IF a < b THEN a ELSE b

\* s[a:b] for 0 <= a, 0 <= b
Slice(s, a, b) == SubSeq(s, a + 1, Min(b, Len(s)))

RECURSIVE lstrip(_, _)
lstrip(s, chars) ==
    IF s # <<>> /\ Head(s) \in chars THEN lstrip(Tail(s), chars) ELSE s

RECURSIVE rstrip(_, _)
rstrip(s, chars) ==
    IF s # <<>> /\ s[Len(s)] \in chars
    THEN rstrip(SubSeq(s, 1, Len(s) - 1), chars)
    ELSE s

\* s.strip(chars)
strip(s, chars) == rstrip(lstrip(s, chars), chars)

\* the characters s.strip() removes
Whitespace == {" ", "\t", "\n", "\r"}

\* --------------------------------------------------------------------
\* parse_dict_strings
\* --------------------------------------------------------------------

OpenBrackets == {"(", "[", "{"}
CloseBrackets == {")", "]", "}"}
QuoteChars == {"\"", "'"}
SplitChars == {":", ","}

\* the frame before the first iteration
parse_frame == [level |-> 0, chunk_start |-> 0, curr_paren |-> None,
                i |-> -1, chunks |-> <<>>]

\* a mutant of parse_char: brackets count inside quoted strings too
parse_char_counting_in_quotes(st, char) ==
    IF char \in OpenBrackets
    THEN [st EXCEPT !.level = @ + 1]
    ELSE IF char \in CloseBrackets
    THEN [st EXCEPT !.level = @ - 1]
    ELSE IF char \in QuoteChars
    THEN IF st.curr_paren = char
         THEN [st EXCEPT !.curr_paren = None]
         ELSE IF st.curr_paren = None
              THEN [st EXCEPT !.curr_paren = char]
              ELSE st
    ELSE st

\* the if / elif chain that tracks brackets and quotes
parse_char(st, char) ==
    IF char \in OpenBrackets /\ st.curr_paren = None
    THEN [st EXCEPT !.level = @ + 1]
    ELSE IF char \in CloseBrackets /\ st.curr_paren = None
    THEN [st EXCEPT !.level = @ - 1]
    ELSE IF char \in QuoteChars
    THEN IF st.curr_paren = char
         THEN [st EXCEPT !.curr_paren = None]
         ELSE IF st.curr_paren = None
              THEN [st EXCEPT !.curr_paren = char]
              ELSE st
    ELSE st

\* a mutant of parse_splits: the quote state is not consulted
parse_splits_ignoring_quotes(st, char) ==
    st.level = 0 /\ char \in SplitChars

\* the condition under which the loop yields a chunk
parse_splits(st, char) ==
    st.level = 0 /\ char \in SplitChars /\ st.curr_paren = None

\* the chunk yielded inside the loop at index idx
parse_yield(s, st, idx) ==
    strip(strip(strip(Slice(s, st.chunk_start, idx), Whitespace), {"("}), {")"})

\* the chunk yielded after the loop
parse_last_yield(s, st) ==
    strip(Slice(s, st.chunk_start, st.i + 1), Whitespace)

\* one iteration of the for loop, at index idx of s
parse_iteration(s, st, idx) ==
    LET char == s[idx + 1]
        st1 == [parse_char(st, char) EXCEPT !.i = idx]
    IN  IF parse_splits(st1, char)
        THEN [st1 EXCEPT !.chunks = Append(@, parse_yield(s, st1, idx)),
                         !.chunk_start = idx + 1]
        ELSE st1

\* the iterations at the indices lo .. hi - 1, in order; the span is halved
\* and its first half, which ends with i = mid - 1, is run before the second,
\* so that long strings do not nest deeply
RECURSIVE parse_span(_, _, _, _)
parse_span(s, st, lo, hi) ==
    IF hi <= lo THEN st
    ELSE IF hi = lo + 1 THEN parse_iteration(s, st, lo)
    ELSE LET mid == (lo + hi) \div 2
             first == parse_span(s, st, lo, mid)
         IN  IF first.i = mid - 1 THEN parse_span(s, first, mid, hi) ELSE first

\* the for loop from index idx on
parse_loop(s, st, idx) == parse_span(s, st, idx, Len(s))

\* list(parse_dict_strings(s)): the chunks, or the exception the generator raises
\* (with an empty s the loop never binds i, and the last yield reads it)
parse_dict_strings(s) ==
    LET st == parse_loop(s, parse_frame, 0)
    IN  IF st.i = -1
        THEN [chunks |-> st.chunks, exc |-> "UnboundLocalError"]
        ELSE [chunks |-> Append(st.chunks, parse_last_yield(s, st)), exc |-> None]

\* --------------------------------------------------------------------
\* The generator, one loop iteration per step
\* --------------------------------------------------------------------

Alphabet == {"a", " ", "(", ")", "'", "\"", ":", ","}

StringsUpTo(n) == UNION {[1..k -> Alphabet] : k \in 0..n}

\* longer arguments with every bracket kind, as dict bodies look
Samples == {
    <<"'", "k", "'", ":", " ", "[", "1", ",", " ", "2", "]", ",", " ",
      "'", "j", "'", ":", " ", "{", "3", ":", " ", "4", "}">>,
    <<"'", "k", "'", ":", " ", "(", "1", ",", "2", ")", ",", " ",
      "'", "j", "'", ":", " ", "\"", "a", ":", "'", ",", "(", "\"">>,
    <<"{", "'", "a", "'", ":", " ", "1", ",", " ", "}", ",", " ",
      "{", "'", "a", "'", ":", " ", "(", "2", ",", ")", ",", " ", "}">> }

ParseInputs == StringsUpTo(MaxLen) \cup Samples

Frame == [level |-> level, chunk_start |-> chunk_start,
          curr_paren |-> curr_paren, i |-> i, chunks |-> chunks]

SetFrame(st) ==
    /\ level' = st.level
    /\ chunk_start' = st.chunk_start
    /\ curr_paren' = st.curr_paren
    /\ i' = st.i
    /\ chunks' = st.chunks

\* the dialog does not exist
DialogIdle ==
    /\ pages = <<>>
    /\ queue = <<>>
    /\ chart_data = <<>>
    /\ figure_code = <<>>
    /\ dstate = "idle"
    /\ edits = 0

\* the call record of runs that keep none
Untraced == [handler |-> "untraced", page |-> 0, effects |-> <<>>]

\* the call record before the one call of a traced run
NoCall == [handler |-> "None", page |-> 0, effects |-> <<>>]

TupleIdle ==
    /\ evaluation = None
    /\ result_tuple = <<>>

InitParse ==
    /\ DialogIdle
    /\ TupleIdle
    /\ exc = None
    /\ last = Untraced
    /\ code \in ParseInputs
    /\ i = parse_frame.i
    /\ level = parse_frame.level
    /\ chunk_start = parse_frame.chunk_start
    /\ curr_paren = parse_frame.curr_paren
    /\ chunks = parse_frame.chunks
    /\ ppc = "loop"

\* the loop body runs for the next character
ParseIterate ==
    /\ ppc = "loop"
    /\ i + 1 < Len(code)
    /\ SetFrame(parse_iteration(code, Frame, i + 1))
    /\ UNCHANGED <<code, ppc, tuple_vars, dialog_vars, exc, last>>

\* the loop is exhausted: the last chunk is yielded
ParseFinish ==
    /\ ppc = "loop"
    /\ i + 1 >= Len(code)
    /\ IF i = -1
       THEN /\ ppc' = "error"
            /\ exc' = "UnboundLocalError"
            /\ UNCHANGED chunks
       ELSE /\ ppc' = "done"
            /\ chunks' = Append(chunks, parse_last_yield(code, Frame))
            /\ UNCHANGED exc
    /\ UNCHANGED <<code, i, level, chunk_start, curr_paren>>
    /\ UNCHANGED <<tuple_vars, dialog_vars, last>>

NextParse == ParseIterate \/ ParseFinish

SpecParse == InitParse /\ [][NextParse]_vars

\* --------------------------------------------------------------------
\* PlotPanel: the per-series dictionary
\* --------------------------------------------------------------------

SeriesDataKeys == {"xdata", "ydata", "linestyle", "linewidth", "color",
                   "marker", "markersize", "markerfacecolor", "markeredgecolor"}

\* the characters of each key, as format() writes them
KeyChars == [xdata |-> <<"x", "d", "a", "t", "a">>,
             ydata |-> <<"y", "d", "a", "t", "a">>,
             linestyle |-> <<"l", "i", "n", "e", "s", "t", "y", "l", "e">>,
             linewidth |-> <<"l", "i", "n", "e", "w", "i", "d", "t", "h">>,
             color |-> <<"c", "o", "l", "o", "r">>,
             marker |-> <<"m", "a", "r", "k", "e", "r">>,
             markersize |-> <<"m", "a", "r", "k", "e", "r", "s", "i", "z", "e">>,
             markerfacecolor |-> <<"m", "a", "r", "k", "e", "r", "f", "a", "c", "e",
                                   "c", "o", "l", "o", "r">>,
             markeredgecolor |-> <<"m", "a", "r", "k", "e", "r", "e", "d", "g", "e",
                                   "c", "o", "l", "o", "r">>]

Black == <<"(", "0", ",", " ", "0", ",", " ", "0", ")">>

\* Default data for series plot
DefaultSeriesData ==
    [xdata |-> <<>>,
     ydata |-> <<>>,
     linestyle |-> <<"'", "-", "'">>,
     linewidth |-> <<"1">>,
     color |-> Black,
     marker |-> <<"'", "'">>,
     markersize |-> <<"5">>,
     markerfacecolor |-> Black,
     markeredgecolor |-> Black]

\* Data types for keys
series_keys == <<"xdata", "ydata", "color", "markerfacecolor", "markeredgecolor">>
string_keys == <<"linestyle", "marker">>
float_keys == <<"markersize">>

Range(seq) == {seq[k] : k \in 1..Len(seq)}

\* dict.update(other): other's keys override
DictUpdate(d, other) ==
    [k \in DOMAIN d \cup DOMAIN other |-> IF k \in DOMAIN other THEN other[k] ELSE d[k]]

\* PlotPanel(parent, -1, series_data): a notebook page holding one series
PlotPanel(series_data) ==
    [kind |-> "PlotPanel", series_data |-> DictUpdate(DefaultSeriesData, series_data)]

\* wx.Panel(self, -1): the page labelled "+", with no series_data
PlusPanel == [kind |-> "Panel", series_data |-> <<>>]

\* --------------------------------------------------------------------
\* Python conversions used by the handlers and by eval_chart_data
\* --------------------------------------------------------------------

Digits == <<"0", "1", "2", "3", "4", "5", "6", "7", "8", "9">>

\* repr(n) for an int n >= 0
RECURSIVE repr_int(_)
repr_int(n) ==
    IF n < 10 THEN <<Digits[n + 1]>> ELSE repr_int(n \div 10) \o <<Digits[(n % 10) + 1]>>

\* repr(s) for a str s without quotes or escapes
repr_str(s) == <<"'">> \o s \o <<"'">>

\* repr(c / 255.0) for the channel values the model uses
repr_channel(c) == IF c = 0 THEN <<"0", ".", "0">> ELSE <<"1", ".", "0">>

\* repr(tuple(i / 255.0 for i in colour.Get()))
repr_color(rgb) ==
    <<"(">> \o repr_channel(rgb[1]) \o <<",", " ">> \o repr_channel(rgb[2])
            \o <<",", " ">> \o repr_channel(rgb[3]) \o <<")">>

DigitValue(c) == (CHOOSE k \in 1..10 : Digits[k] = c) - 1

RECURSIVE IntValue(_)
IntValue(t) ==
    IF t = <<>> THEN 0 ELSE 10 * IntValue(SubSeq(t, 1, Len(t) - 1)) + DigitValue(t[Len(t)])

\* float(s), for s an unsigned decimal integer literal; ValueError otherwise
float(s) ==
    LET t == strip(s, Whitespace) IN
    IF t # <<>> /\ \A k \in 1..Len(t) : t[k] \in Range(Digits)
    THEN [val |-> IntValue(t), exc |-> None]
    ELSE [val |-> 0, exc |-> "ValueError"]

\* --------------------------------------------------------------------
\* get_series_tuple
\* --------------------------------------------------------------------

\* What grid.code_array._eval_cell(key, code) followed by
\* tuple(numpy.array(result)) can do: "sequence": the result is iterable;
\* "scalar": the result is not iterable and tuple() raises TypeError;
\* "TypeError", "ValueError": the evaluation or numpy.array raises it.
EvalOutcomes == {"sequence", "scalar", "TypeError", "ValueError"}

\* the outcome for a given string while the dialog is open (the grid does
\* not change under the modal dialog): a string with a comma evaluates to a
\* tuple, any other string of the model to a scalar or None
_eval_cell(s) ==
    IF \E k \in 1..Len(s) : s[k] = "," THEN "sequence" ELSE "scalar"

\* a mutant of SeriesTupleExcept: ValueError is not caught
SeriesTupleExceptTypeErrorOnly == {"TypeError"}

\* except (TypeError, ValueError)
SeriesTupleExcept == {"TypeError", "ValueError"}

\* get_series_tuple(code) when the evaluation has the given outcome; the
\* tuple of the items of eval(s) is written <<s>>, the empty tuple <<>>
get_series_tuple_on(s, outcome) ==
    LET raised == CASE outcome = "sequence" -> None
                    [] outcome = "scalar" -> "TypeError"
                    [] OTHER -> outcome
    IN  IF raised = None THEN [val |-> <<s>>, exc |-> None]
        ELSE IF raised \in SeriesTupleExcept THEN [val |-> <<>>, exc |-> None]
        ELSE [val |-> <<>>, exc |-> raised]

get_series_tuple(s) == get_series_tuple_on(s, _eval_cell(s))

\* --------------------------------------------------------------------
\* The handlers, as functions of the dialog's state
\*   st.pages, st.queue, st.chart_data: the state the handler works on
\*   st.effects: the calls the handler has made so far, in order
\*   st.exc: the exception that left the handler, or None
\* --------------------------------------------------------------------

Eff(op, page, key) == [op |-> op, page |-> page, key |-> key]

Effect(st, op, page, key) == [st EXCEPT !.effects = Append(@, Eff(op, page, key))]

Begin == [pages |-> pages, queue |-> queue, chart_data |-> chart_data,
          effects |-> <<>>, exc |-> None]

\* a mutant of SetItem: all series pages hold one and the same dictionary
SetItem_shared(st, p, key, value) ==
    Effect([st EXCEPT !.pages =
                [k \in 1..Len(@) |->
                    IF @[k].kind = "PlotPanel"
                    THEN [@[k] EXCEPT !.series_data[key] = value]
                    ELSE @[k]]],
           "series_data[]=", p, key)

\* self.series_data[key] = value, in the panels of page p (PlotPanel hands
\* its one dictionary to its three sub-panels)
SetItem(st, p, key, value) ==
    Effect([st EXCEPT !.pages[p].series_data[key] = value], "series_data[]=", p, key)

\* post_command_event(target, msg): wx.PostEvent queues the event; it is
\* handled after the running handler has returned
post_command_event(st, msg) ==
    Effect([st EXCEPT !.queue = Append(@, msg)], "post_command_event", 0, msg)

\* a mutant of OnXText: the redraw is requested before the value is stored
OnXText_post_first(st, p, string) ==
    SetItem(post_command_event(st, "DrawChartMsg"), p, "xdata", string)

OnXText(st, p, string) ==
    post_command_event(SetItem(st, p, "xdata", string), "DrawChartMsg")

OnYText(st, p, string) ==
    post_command_event(SetItem(st, p, "ydata", string), "DrawChartMsg")

\* ChartAxisLinePanel.OnStyle
LineOnStyle(st, p, line_style_code) ==
    post_command_event(SetItem(st, p, "linestyle", repr_str(line_style_code)),
                       "DrawChartMsg")

OnWidth(st, p, selection) ==
    post_command_event(SetItem(st, p, "linewidth", repr_int(selection)), "DrawChartMsg")

OnColor(st, p, rgb) ==
    post_command_event(SetItem(st, p, "color", repr_color(rgb)), "DrawChartMsg")

\* ChartAxisMarkerPanel.OnStyle
MarkerOnStyle(st, p, marker_style_code) ==
    post_command_event(SetItem(st, p, "marker", repr_str(marker_style_code)),
                       "DrawChartMsg")

OnSize(st, p, value) ==
    post_command_event(SetItem(st, p, "markersize", repr_int(value)), "DrawChartMsg")

OnEdgeColor(st, p, rgb) ==
    post_command_event(SetItem(st, p, "markeredgecolor", repr_color(rgb)),
                       "DrawChartMsg")

OnFaceColor(st, p, rgb) ==
    post_command_event(SetItem(st, p, "markerfacecolor", repr_color(rgb)),
                       "DrawChartMsg")

\* --------------------------------------------------------------------
\* eval_chart_data
\* --------------------------------------------------------------------

\* a mutant of Inner: only the first character is removed
Inner_first_only(s) == SubSeq(s, 2, Len(s))

\* series_data[key][1:-1]
Inner(s) == SubSeq(s, 2, Len(s) - 1)

\* the three conversion loops on the copy of one page's series_data
eval_series_data(series_data) ==
    [key \in DOMAIN series_data |->
        IF key \in Range(series_keys) THEN get_series_tuple(series_data[key]).val
        ELSE IF key \in Range(string_keys) THEN Inner(series_data[key])
        ELSE IF key \in Range(float_keys) THEN float(series_data[key]).val
        ELSE series_data[key]]

\* the exception one page's conversions raise, or None
eval_series_exc(page) ==
    IF page.kind # "PlotPanel" THEN "AttributeError"
    ELSE IF \E key \in Range(series_keys) :
                get_series_tuple(page.series_data[key]).exc # None
    THEN CHOOSE e \in EvalOutcomes : \E key \in Range(series_keys) :
                get_series_tuple(page.series_data[key]).exc = e
    ELSE IF \E key \in Range(float_keys) : float(page.series_data[key]).exc # None
    THEN "ValueError"
    ELSE None

RECURSIVE eval_panels(_, _, _)
eval_panels(pgs, panel_number, no_series) ==
    IF panel_number >= no_series THEN [val |-> <<>>, exc |-> None]
    ELSE LET series_panel == pgs[panel_number + 1]
             e == eval_series_exc(series_panel)
         IN  IF e # None THEN [val |-> <<>>, exc |-> e]
             ELSE LET rest == eval_panels(pgs, panel_number + 1, no_series)
                  IN  [val |-> <<eval_series_data(series_panel.series_data)>> \o rest.val,
                       exc |-> rest.exc]

\* eval_chart_data(): the list, or the exception raised
eval_chart_data(pgs) == eval_panels(pgs, 0, Len(pgs) - 1)

\* --------------------------------------------------------------------
\* get_figure_code
\* --------------------------------------------------------------------

\* a series value is parenthesized unless it already starts with "(" and
\* ends with ")"
figure_value_str(key, value_str) ==
    IF key \in Range(series_keys)
       /\ (value_str = <<>> \/ value_str[1] # "(" \/ value_str[Len(value_str)] # ")")
    THEN <<"(">> \o value_str \o <<")">>
    ELSE value_str

\* "'{}': {}, ".format(key, value_str)
format_item(key, value_str) ==
    <<"'">> \o KeyChars[key] \o <<"'", ":", " ">> \o value_str \o <<",", " ">>

\* the loop over the keys of one page, in the dict's iteration order
RECURSIVE series_data_code(_, _, _)
series_data_code(series_data, order, k) ==
    IF k > Len(order) THEN <<>>
    ELSE format_item(order[k], figure_value_str(order[k], series_data[order[k]]))
         \o series_data_code(series_data, order, k + 1)

\* the loop over the pages
RECURSIVE chart_data_code(_, _, _, _)
chart_data_code(pgs, order, panel_number, no_series) ==
    IF panel_number >= no_series THEN <<>>
    ELSE <<",", " ", "{">> \o series_data_code(pgs[panel_number + 1].series_data, order, 1)
         \o <<"}">> \o chart_data_code(pgs, order, panel_number + 1, no_series)

ChartsPrefix == <<"c", "h", "a", "r", "t", "s", ".">>
cls_name == <<"C", "h", "a", "r", "t", "F", "i", "g", "u", "r", "e">>

\* a mutant of figure_code_slice: the leading ", " is kept
figure_code_unsliced(chart_data_code_) == chart_data_code_

\* chart_data_code[2:]
figure_code_slice(chart_data_code_) ==
    SubSeq(chart_data_code_, 3, Len(chart_data_code_))

\* get_figure_code(), with the iteration order of the series_data dicts
get_figure_code(pgs, order) ==
    ChartsPrefix \o cls_name \o <<"(">>
        \o figure_code_slice(chart_data_code(pgs, order, 0, Len(pgs) - 1))
        \o <<")">>

\* --------------------------------------------------------------------
\* The dialog's own handlers
\* --------------------------------------------------------------------

\* series_notebook.InsertPage(indx, page, text), indx 0-based
InsertPage(st, indx, page) ==
    Effect([st EXCEPT !.pages = SubSeq(@, 1, indx) \o <<page>>
                                   \o SubSeq(@, indx + 1, Len(@))],
           "InsertPage", indx, "Series")

\* a mutant of OnSeriesChanged: the new page is appended after the last one
OnSeriesChanged_append(st, selection) ==
    Effect(IF selection = Len(st.pages) - 1
           THEN InsertPage(st, selection + 1, PlotPanel(<<>>))
           ELSE st,
           "event.Skip", 0, "")

\* OnSeriesChanged(event), selection = event.GetSelection(), 0-based
OnSeriesChanged(st, selection) ==
    Effect(IF selection = Len(st.pages) - 1
           THEN InsertPage(st, selection, PlotPanel(<<>>))
           ELSE st,
           "event.Skip", 0, "")

OnSeriesDeleted(st) ==
    Effect(post_command_event(st, "DrawChartMsg"), "event.Skip", 0, "")

\* a mutant of stored_after_eval: the conversions are written to the
\* panel's own dictionary
stored_after_eval_in_place(series_data) == eval_series_data(series_data)

\* series_data = copy(series_panel.series_data): what the panel's own
\* dictionary holds once the conversions have been written to the copy
stored_after_eval(series_data) == series_data

\* the notebook's pages after eval_chart_data()
pages_after_eval(pgs) ==
    [k \in 1..Len(pgs) |->
        IF k < Len(pgs) /\ pgs[k].kind = "PlotPanel"
        THEN [pgs[k] EXCEPT !.series_data = stored_after_eval(@)]
        ELSE pgs[k]]

\* figure.draw_chart() returns or raises ValueError
DrawOutcomes == {"ok", "ValueError"}

\* a mutant of OnDrawChart: the canvas is drawn whatever draw_chart did
OnDrawChart_always_draws(st, outcome) ==
    LET ev == eval_chart_data(st.pages) IN
    IF ev.exc # None THEN [st EXCEPT !.exc = ev.exc]
    ELSE Effect(Effect(Effect([st EXCEPT !.chart_data = ev.val,
                                         !.pages = pages_after_eval(@)],
                              "figure.chart_data=", 0, ""),
                       "figure.draw_chart", 0, outcome),
                "figure_canvas.draw", 0, "")

\* OnDrawChart(event), with what figure.draw_chart() does
OnDrawChart(st, outcome) ==
    LET ev == eval_chart_data(st.pages) IN
    IF ev.exc # None THEN [st EXCEPT !.exc = ev.exc]
    ELSE LET drawn == Effect(Effect([st EXCEPT !.chart_data = ev.val,
                                               !.pages = pages_after_eval(@)],
                                    "figure.chart_data=", 0, ""),
                             "figure.draw_chart", 0, outcome)
         IN  IF outcome = "ValueError" THEN drawn
             ELSE Effect(drawn, "figure_canvas.draw", 0, "")

\* --------------------------------------------------------------------
\* The dialog as a state machine
\* --------------------------------------------------------------------

\* what the user types into the X and Y fields
TextInputs == { <<"1", ",", "2">>,
                <<"(", "1", ",", "2", ")", ",", "(", "3", ",", "4", ")">> }

\* codes the style combo boxes return from get_code
LineStyleCodes == { <<"-", "-">> }
MarkerStyleCodes == { <<"o">> }

\* event.GetSelection() of the width combo box, event.GetValue() of the
\* size control, event.GetValue().Get() of the colour selectors
WidthSelections == {11}
SizeValues == {12}
Colours == { <<255, 0, 0>> }

\* iteration orders of a series_data dict (dict order is the interpreter's)
DictOrders == {
    <<"xdata", "ydata", "linestyle", "linewidth", "color", "marker",
      "markersize", "markerfacecolor", "markeredgecolor">>,
    <<"markeredgecolor", "markerfacecolor", "markersize", "marker", "color",
      "linewidth", "linestyle", "ydata", "xdata">> }

ParserIdle ==
    /\ i = parse_frame.i
    /\ level = parse_frame.level
    /\ chunk_start = parse_frame.chunk_start
    /\ curr_paren = parse_frame.curr_paren
    /\ chunks = parse_frame.chunks
    /\ ppc = "idle"

\* ChartDialog.__init__ with a code that does not start with "charts.":
\* one default series page, the "+" page, the figure built from
\* eval_chart_data(), and the initial DrawChartMsg
Init ==
    /\ ParserIdle
    /\ TupleIdle
    /\ code = <<>>
    /\ pages = <<PlotPanel(<<>>), PlusPanel>>
    /\ chart_data = eval_chart_data(pages).val
    /\ queue = <<"DrawChartMsg">>
    /\ figure_code = <<>>
    /\ dstate = "open"
    /\ exc = None
    /\ edits = 0
    /\ last = Untraced

\* a run that keeps the call record makes one call
CanCall == last \in {Untraced, NoCall}

\* the call record after a call, in the runs that keep one
Traced(handler, page, effects) ==
    IF last = Untraced THEN last
    ELSE [handler |-> handler, page |-> page, effects |-> effects]

\* the handler has run: its state changes stay, whether it returned or raised
Returned(handler, page, st) ==
    /\ CanCall
    /\ pages' = st.pages
    /\ queue' = st.queue
    /\ chart_data' = st.chart_data
    /\ exc' = st.exc
    /\ last' = Traced(handler, page, st.effects)
    /\ UNCHANGED <<code, parse_vars, ppc, tuple_vars, figure_code, dstate>>

SeriesPages == {p \in 1..Len(pages) : pages[p].kind = "PlotPanel"}

\* a widget of series page p has fired its event
Edited(handler, p, st) ==
    /\ Returned(handler, p, st)
    /\ edits' = edits + 1

CanEdit == dstate = "open" /\ edits < MaxEdits /\ Len(queue) < MaxQueue

EditX ==
    /\ CanEdit
    /\ \E p \in SeriesPages, string \in TextInputs :
           Edited("ChartAxisDataPanel.OnXText", p, OnXText(Begin, p, string))

EditY ==
    /\ CanEdit
    /\ \E p \in SeriesPages, string \in TextInputs :
           Edited("ChartAxisDataPanel.OnYText", p, OnYText(Begin, p, string))

EditLineStyle ==
    /\ CanEdit
    /\ \E p \in SeriesPages, c \in LineStyleCodes :
           Edited("ChartAxisLinePanel.OnStyle", p, LineOnStyle(Begin, p, c))

EditLineWidth ==
    /\ CanEdit
    /\ \E p \in SeriesPages, n \in WidthSelections :
           Edited("ChartAxisLinePanel.OnWidth", p, OnWidth(Begin, p, n))

EditLineColor ==
    /\ CanEdit
    /\ \E p \in SeriesPages, rgb \in Colours :
           Edited("ChartAxisLinePanel.OnColor", p, OnColor(Begin, p, rgb))

EditMarkerStyle ==
    /\ CanEdit
    /\ \E p \in SeriesPages, c \in MarkerStyleCodes :
           Edited("ChartAxisMarkerPanel.OnStyle", p, MarkerOnStyle(Begin, p, c))

EditMarkerSize ==
    /\ CanEdit
    /\ \E p \in SeriesPages, n \in SizeValues :
           Edited("ChartAxisMarkerPanel.OnSize", p, OnSize(Begin, p, n))

EditMarkerEdgeColor ==
    /\ CanEdit
    /\ \E p \in SeriesPages, rgb \in Colours :
           Edited("ChartAxisMarkerPanel.OnEdgeColor", p, OnEdgeColor(Begin, p, rgb))

EditMarkerFaceColor ==
    /\ CanEdit
    /\ \E p \in SeriesPages, rgb \in Colours :
           Edited("ChartAxisMarkerPanel.OnFaceColor", p, OnFaceColor(Begin, p, rgb))

\* the selections for which the model follows OnSeriesChanged: any page, as
\* long as the notebook stays within MaxPages
Selectable(pgs) ==
    {p \in 1..Len(pgs) : p = Len(pgs) => Len(pgs) < MaxPages}

\* the user selects the tab of page p: EVT_FLATNOTEBOOK_PAGE_CHANGED
SelectPage ==
    /\ dstate = "open"
    /\ \E p \in Selectable(pages) :
           Returned("ChartDialog.OnSeriesChanged", p, OnSeriesChanged(Begin, p - 1))
    /\ UNCHANGED edits

\* the notebook deletes page p, 1-based
DeletePage(st, p) ==
    [st EXCEPT !.pages = SubSeq(@, 1, p - 1) \o SubSeq(@, p + 1, Len(@))]

\* the user closes page p: EVT_FLATNOTEBOOK_PAGE_CLOSING is handled, and,
\* the event not being vetoed, the notebook then deletes the page
ClosePage ==
    /\ dstate = "open"
    /\ Len(queue) < MaxQueue
    /\ \E p \in 1..Len(pages) :
           Returned("ChartDialog.OnSeriesDeleted", p,
                    DeletePage(OnSeriesDeleted(Begin), p))
    /\ UNCHANGED edits

\* the state in which the oldest posted event is being delivered
Delivering == [Begin EXCEPT !.queue = Tail(@)]

\* the event loop delivers the oldest posted DrawChartMsg
DrawChart ==
    /\ dstate = "open"
    /\ queue # <<>>
    /\ \E outcome \in DrawOutcomes :
           Returned("ChartDialog.OnDrawChart", 0, OnDrawChart(Delivering, outcome))
    /\ UNCHANGED edits

Next ==
    \/ EditX
    \/ EditY
    \/ EditLineStyle
    \/ EditLineWidth
    \/ EditLineColor
    \/ EditMarkerStyle
    \/ EditMarkerSize
    \/ EditMarkerEdgeColor
    \/ EditMarkerFaceColor
    \/ SelectPage
    \/ ClosePage
    \/ DrawChart

Spec == Init /\ [][Next]_vars

\* --------------------------------------------------------------------
\* One call at a time: the dialog is taken in any of a set of states its
\* handlers can leave it in, and one handler or method is called, with the
\* calls it makes recorded in last
\* --------------------------------------------------------------------

\* the strings each handler stores under its key
HandlerValues ==
    [xdata |-> TextInputs,
     ydata |-> TextInputs,
     linestyle |-> {repr_str(c) : c \in LineStyleCodes},
     linewidth |-> {repr_int(n) : n \in WidthSelections},
     color |-> {repr_color(rgb) : rgb \in Colours},
     marker |-> {repr_str(c) : c \in MarkerStyleCodes},
     markersize |-> {repr_int(n) : n \in SizeValues},
     markerfacecolor |-> {repr_color(rgb) : rgb \in Colours},
     markeredgecolor |-> {repr_color(rgb) : rgb \in Colours}]

\* series_data of a page: the defaults, the defaults with the X or Y text
\* edited, and a page with every widget edited
SeriesContents ==
    {DefaultSeriesData}
    \cup {[DefaultSeriesData EXCEPT !.xdata = string] : string \in TextInputs}
    \cup {[DefaultSeriesData EXCEPT !.ydata = string] : string \in TextInputs}
    \cup {[key \in SeriesDataKeys |-> CHOOSE v \in HandlerValues[key] : TRUE]}

\* notebooks of up to MaxPages pages: series pages, then the "+" page
DialogPages ==
    UNION {{[k \in 1..n |-> PlotPanel(f[k])] \o <<PlusPanel>> :
                f \in [1..n -> SeriesContents]} : n \in 0..(MaxPages - 1)}

InitCalls ==
    /\ ParserIdle
    /\ TupleIdle
    /\ code = <<>>
    /\ pages \in DialogPages
    /\ chart_data = eval_chart_data(pages).val
    /\ queue \in {<<>>, <<"DrawChartMsg">>}
    /\ figure_code = <<>>
    /\ dstate = "open"
    /\ exc = None
    /\ edits = 0
    /\ last = NoCall

\* the dialog is left with OK and its caller asks for the code
GetFigureCode ==
    /\ CanCall
    /\ dstate = "open"
    /\ dstate' = "closed"
    /\ \E order \in DictOrders : figure_code' = get_figure_code(pages, order)
    /\ last' = Traced("ChartDialog.get_figure_code", 0, <<>>)
    /\ UNCHANGED <<code, parse_vars, ppc, tuple_vars, pages, queue, chart_data,
                   exc, edits>>

\* arguments of get_series_tuple
TupleInputs == TextInputs \cup {<<>>, <<"1">>, Black}

\* a panel asks for the tuple of a string; the evaluation does any of the
\* things an evaluation can do
GetSeriesTuple ==
    /\ CanCall
    /\ dstate = "open"
    /\ \E s \in TupleInputs, outcome \in EvalOutcomes :
           LET r == get_series_tuple_on(s, outcome) IN
           /\ evaluation' = outcome
           /\ result_tuple' = r.val
           /\ exc' = r.exc
           /\ last' = Traced("ChartDialog.get_series_tuple", 0, <<>>)
    /\ UNCHANGED <<code, parse_vars, ppc, dialog_vars>>

NextCalls ==
    \/ Next
    \/ GetFigureCode
    \/ GetSeriesTuple

SpecCalls == InitCalls /\ [][NextCalls]_vars

\* --------------------------------------------------------------------
\* A redraw for any content of a series_data dictionary
\* --------------------------------------------------------------------

\* strings a series_data value may be set to
AnyValues == { <<"5">>, <<"x">>, Black }

InitAnyContent ==
    /\ ParserIdle
    /\ TupleIdle
    /\ code = <<>>
    /\ \E content \in [SeriesDataKeys -> AnyValues] :
           pages = <<PlotPanel(content), PlusPanel>>
    /\ chart_data = <<>>
    /\ queue = <<"DrawChartMsg">>
    /\ figure_code = <<>>
    /\ dstate = "open"
    /\ exc = None
    /\ edits = 0
    /\ last = NoCall

NextAnyContent == DrawChart

SpecAnyContent == InitAnyContent /\ [][NextAnyContent]_vars

\* --------------------------------------------------------------------
\* ChartDialog.__init__
\* --------------------------------------------------------------------

\* the key of series_data whose name is chars; a string that is no such
\* name, and a literal that is no string, stand under OtherKey
OtherKey == "<other>"

KeyOf(chars) ==
    IF \E key \in SeriesDataKeys : KeyChars[key] = chars
    THEN CHOOSE key \in SeriesDataKeys : KeyChars[key] = chars
    ELSE OtherKey

\* chars a number or a tuple of numbers is written with
NumberChars == Range(Digits) \cup {",", " ", "."}

\* ast.literal_eval(k) of a chunk: a quoted string gives the string, a
\* digit-led text of digits, '.', ',' and blanks a number or a tuple, the
\* empty text and any other text an exception of the parser
literal_eval(k) ==
    IF /\ Len(k) >= 2
       /\ k[1] \in QuoteChars
       /\ k[Len(k)] = k[1]
       /\ \A j \in 2..(Len(k) - 1) : k[j] # k[1]
    THEN [val |-> KeyOf(SubSeq(k, 2, Len(k) - 1)), exc |-> None]
    ELSE IF /\ k # <<>>
            /\ k[1] \in Range(Digits)
            /\ \A j \in 1..Len(k) : k[j] \in NumberChars
    THEN [val |-> OtherKey, exc |-> None]
    ELSE [val |-> OtherKey, exc |-> "SyntaxError"]

\* int(s) as the panels' __set_properties apply it
py_int(s) == float(s)

\* code.split("(", 1)[1][:-1]; IndexError without a "("
code_param_string(c) ==
    IF \A k \in 1..Len(c) : c[k] # "("
    THEN [val |-> <<>>, exc |-> "IndexError"]
    ELSE LET k == CHOOSE k \in 1..Len(c) :
                      c[k] = "(" /\ \A j \in 1..(k - 1) : c[j] # "("
         IN  [val |-> SubSeq(c, k + 1, Len(c) - 1), exc |-> None]

\* dict((ast.literal_eval(k), v) for k, v in zip(l[::2], l[1::2])): a later
\* pair overrides an earlier one with the same key
series_param_dict(l) ==
    LET n == Len(l) \div 2
        failed == {j \in 1..n : literal_eval(l[2 * j - 1]).exc # None}
        keys == {literal_eval(l[2 * j - 1]).val : j \in 1..n}
        LastOf(key) == CHOOSE j \in 1..n :
                           /\ literal_eval(l[2 * j - 1]).val = key
                           /\ \A j2 \in (j + 1)..n :
                                  literal_eval(l[2 * j2 - 1]).val # key
    IN  IF failed # {}
        THEN [val |-> <<>>,
              exc |-> literal_eval(l[2 * (CHOOSE j \in failed :
                                             \A j2 \in failed : j <= j2) - 1]).exc]
        ELSE [val |-> [key \in keys |-> l[2 * LastOf(key)]], exc |-> None]

\* one turn of the loop over code_param_list
series_param(series_param_string) ==
    LET series_param_list ==
            parse_dict_strings(Slice(series_param_string, 1,
                                     Len(series_param_string) - 1))
    IN  IF series_param_list.exc # None
        THEN [val |-> <<>>, exc |-> series_param_list.exc]
        ELSE series_param_dict(series_param_list.chunks)

\* the exception the sub-panels' __set_properties raise for a PlotPanel
PlotPanel_exc(panel) ==
    IF py_int(panel.series_data["linewidth"]).exc # None
       \/ py_int(panel.series_data["markersize"]).exc # None
    THEN "ValueError"
    ELSE None

\* the two loops of the "charts." branch, from the k-th chunk on
RECURSIVE code_param_pages(_, _)
code_param_pages(code_param_list, k) ==
    IF k > Len(code_param_list) THEN [val |-> <<>>, exc |-> None]
    ELSE LET sp == series_param(code_param_list[k]) IN
         IF sp.exc # None THEN [val |-> <<>>, exc |-> sp.exc]
         ELSE LET rest == code_param_pages(code_param_list, k + 1) IN
              IF rest.exc # None THEN rest
              ELSE IF PlotPanel_exc(PlotPanel(sp.val)) # None
              THEN [val |-> <<>>, exc |-> PlotPanel_exc(PlotPanel(sp.val))]
              ELSE [val |-> <<PlotPanel(sp.val)>> \o rest.val, exc |-> None]

\* the figure the cell's code evaluates to (charts.ChartFigure is not part
\* of the dialog): known only by the code it came from
EvaluatedFigure(c) == <<[evaluated |-> c]>>

\* ChartDialog.__init__(parent, code): the pages, the figure's chart_data
\* and the posted events, or the exception that ends the construction
ChartDialog_init(c) ==
    LET failed(e) == [pages |-> <<>>, chart_data |-> <<>>, queue |-> <<>>,
                      exc |-> e]
    IN  IF Slice(c, 0, 7) = ChartsPrefix
        THEN LET cps == code_param_string(c) IN
             IF cps.exc # None THEN failed(cps.exc)
             ELSE LET code_param_list == parse_dict_strings(cps.val) IN
                  IF code_param_list.exc # None THEN failed(code_param_list.exc)
                  ELSE LET built == code_param_pages(code_param_list.chunks, 1) IN
                       IF built.exc # None THEN failed(built.exc)
                       ELSE [pages |-> built.val \o <<PlusPanel>>,
                             chart_data |-> EvaluatedFigure(c),
                             queue |-> <<"DrawChartMsg">>,
                             exc |-> None]
        ELSE LET pgs == <<PlotPanel(<<>>), PlusPanel>> IN
             [pages |-> pgs,
              chart_data |-> eval_chart_data(pgs).val,
              queue |-> <<"DrawChartMsg">>,
              exc |-> None]

\* the dialog is constructed on c
Constructed(c) ==
    LET d == ChartDialog_init(c) IN
    /\ code' = c
    /\ pages' = d.pages
    /\ chart_data' = d.chart_data
    /\ queue' = d.queue
    /\ exc' = d.exc
    /\ dstate' = IF d.exc = None THEN "open" ELSE "failed"
    /\ edits' = 0
    /\ UNCHANGED <<parse_vars, ppc, tuple_vars, figure_code>>

\* the code get_figure_code returned was written into the cell, and the
\* dialog is opened on that cell again
Reopen ==
    /\ dstate = "closed"
    /\ Constructed(figure_code)
    /\ last' = Traced("ChartDialog.__init__", 0, <<>>)

NextRoundTrip ==
    \/ GetFigureCode
    \/ Reopen

SpecRoundTrip == InitCalls /\ [][NextRoundTrip]_vars

\* what a cell holds when the dialog is opened on it: no chart, or the code
\* an earlier dialog has generated
OpenCodes ==
    TupleInputs
    \cup {get_figure_code(pgs, order) : pgs \in DialogPages, order \in DictOrders}

InitOpen ==
    /\ ParserIdle
    /\ TupleIdle
    /\ DialogIdle
    /\ code \in OpenCodes
    /\ exc = None
    /\ last = NoCall

\* the dialog is opened on the cell's code
Open ==
    /\ dstate = "idle"
    /\ Constructed(code)
    /\ last' = Traced("ChartDialog.__init__", 0, <<>>)

NextOpen == Open

SpecOpen == InitOpen /\ [][NextOpen]_vars

\* --------------------------------------------------------------------
\* Reference notions for the parser's claims: a tokenizer with a bracket
\* stack, written independently of parse_dict_strings
\* --------------------------------------------------------------------

Closer(c) == CASE c = "(" -> ")" [] c = "[" -> "]" [] OTHER -> "}"

\* Scans s from position k (1-based) with the stack of open brackets and the
\* open quote; returns whether s is balanced and its top-level separators.
RECURSIVE Scan(_, _, _, _, _)
Scan(s, k, stack, quote, seps) ==
    IF k > Len(s)
    THEN [ok |-> stack = <<>> /\ quote = None, seps |-> seps]
    ELSE LET c == s[k] IN
         IF quote # None
         THEN Scan(s, k + 1, stack, IF c = quote THEN None ELSE quote, seps)
         ELSE IF c \in QuoteChars
         THEN Scan(s, k + 1, stack, c, seps)
         ELSE IF c \in OpenBrackets
         THEN Scan(s, k + 1, Append(stack, c), quote, seps)
         ELSE IF c \in CloseBrackets
         THEN IF stack # <<>> /\ Closer(stack[Len(stack)]) = c
              THEN Scan(s, k + 1, SubSeq(stack, 1, Len(stack) - 1), quote, seps)
              ELSE [ok |-> FALSE, seps |-> seps]
         ELSE IF c \in SplitChars /\ stack = <<>>
         THEN Scan(s, k + 1, stack, quote, Append(seps, c))
         ELSE Scan(s, k + 1, stack, quote, seps)

TopLevel(s) == Scan(s, 1, <<>>, None, <<>>)

\* key: value, key: value, ...: balanced, and the top-level separators
\* alternate ':' ',' ':' ... ':'
WellFormedFlat(s) ==
    LET r == TopLevel(s) IN
    /\ r.ok
    /\ Len(r.seps) % 2 = 1
    /\ \A j \in 1..Len(r.seps) : r.seps[j] = IF j % 2 = 1 THEN ":" ELSE ","

NumPairs(s) == (Len(TopLevel(s).seps) + 1) \div 2

\* the quote that is open after the first k characters of s, or None
RECURSIVE QuoteAfter(_, _)
QuoteAfter(s, k) ==
    IF k = 0 THEN None
    ELSE LET q == QuoteAfter(s, k - 1) IN
         IF q = None
         THEN IF s[k] \in QuoteChars THEN s[k] ELSE None
         ELSE IF s[k] = q THEN None ELSE q

\* opening minus closing brackets outside quoted strings among the first k
\* characters of s
RECURSIVE DepthAfter(_, _)
DepthAfter(s, k) ==
    IF k = 0 THEN 0
    ELSE DepthAfter(s, k - 1)
         + (IF QuoteAfter(s, k - 1) # None \/ QuoteAfter(s, k) # None THEN 0
            ELSE IF s[k] \in OpenBrackets THEN 1
            ELSE IF s[k] \in CloseBrackets THEN -1
            ELSE 0)

\* --------------------------------------------------------------------
\* Claims about parse_dict_strings (under SpecParse)
\* --------------------------------------------------------------------

\* C1: for a well-formed flat key: value, key: value string with n >= 1
\* pairs, parse_dict_strings yields exactly 2n chunks.
C1_ChunkCount ==
    (ppc = "done" /\ WellFormedFlat(code)) => Len(chunks) = 2 * NumPairs(code)

\* C1 witness: a finished parse of a two-pair string in which a separator
\* sits inside brackets or inside a quoted string
C1_Witness ==
    /\ ppc = "done"
    /\ WellFormedFlat(code)
    /\ NumPairs(code) = 2
    /\ Len(chunks) = 4
    /\ \E k \in 1..Len(code) :
           code[k] \in SplitChars
           /\ (DepthAfter(code, k) > 0 \/ QuoteAfter(code, k) # None)

StrippedChunk(c) ==
    c = <<>> \/ (/\ c[1] \notin Whitespace \cup {"("}
                 /\ c[Len(c)] \notin Whitespace \cup {")"})

\* C2: every chunk yielded, the final one included, neither begins with '('
\* or whitespace nor ends with ')' or whitespace (stated for well-formed
\* arguments, where it already fails).
C2_AllChunksStripped ==
    (ppc = "done" /\ WellFormedFlat(code)) =>
        \A k \in 1..Len(chunks) : StrippedChunk(chunks[k])

\* C3: a chunk ends only at a ':' or ',' at which the nesting depth is 0 and
\* no quoted string is open, and a bracket inside a quoted string leaves the
\* nesting counter alone.
C3_SplitsOnlyAtTopLevel ==
    [][(ppc = "loop" /\ i' # i) =>
          /\ (Len(chunks') > Len(chunks) =>
                 /\ code[i' + 1] \in SplitChars
                 /\ DepthAfter(code, i' + 1) = 0
                 /\ QuoteAfter(code, i' + 1) = None)
          /\ ((QuoteAfter(code, i') # None
               /\ code[i' + 1] \in OpenBrackets \cup CloseBrackets)
                 => level' = level)]_vars

\* C3 witness: a finished parse that split somewhere, although the argument
\* also has a separator inside brackets and one inside a quoted string, and
\* a bracket inside a quoted string
C3_Witness ==
    /\ ppc = "done"
    /\ Len(chunks) > 1
    /\ \E k \in 1..Len(code) :
           code[k] \in SplitChars /\ DepthAfter(code, k) > 0
           /\ QuoteAfter(code, k) = None
    /\ \E k \in 1..Len(code) :
           code[k] \in SplitChars /\ QuoteAfter(code, k) # None
    /\ \E k \in 1..Len(code) :
           code[k] \in OpenBrackets \cup CloseBrackets
           /\ QuoteAfter(code, k) # None

\* --------------------------------------------------------------------
\* The form of the generated code, read off the text
\* --------------------------------------------------------------------

StartsWith(s, prefix) ==
    Len(s) >= Len(prefix) /\ SubSeq(s, 1, Len(prefix)) = prefix

Drop(s, n) == SubSeq(s, n + 1, Len(s))

\* the text "'key': v, "
EntryText(key, v) ==
    <<"'">> \o KeyChars[key] \o <<"'", ":", " ">> \o v \o <<",", " ">>

\* text consists of one entry for each key of keys, in some order, each
\* with the value series_data holds for it, as such or in parentheses
RECURSIVE ListsKeys(_, _, _)
ListsKeys(text, series_data, keys) ==
    IF keys = {} THEN text = <<>>
    ELSE \E key \in keys :
             \E v \in {series_data[key], <<"(">> \o series_data[key] \o <<")">>} :
                 /\ StartsWith(text, EntryText(key, v))
                 /\ ListsKeys(Drop(text, Len(EntryText(key, v))), series_data,
                              keys \ {key})

\* d is a dict literal that lists every key of series_data
IsDict(d, series_data) ==
    /\ Len(d) >= 2
    /\ d[1] = "{"
    /\ d[Len(d)] = "}"
    /\ ListsKeys(SubSeq(d, 2, Len(d) - 1), series_data, DOMAIN series_data)

\* text is Dk + ', ' + ... + ', ' + Dn, Di a dict literal for page i
RECURSIVE DictsFor(_, _, _, _)
DictsFor(text, pgs, k, n) ==
    IF k > n THEN text = <<>>
    ELSE \E m \in 1..Len(text) :
             /\ IsDict(SubSeq(text, 1, m), pgs[k].series_data)
             /\ IF k = n THEN m = Len(text)
                ELSE /\ StartsWith(Drop(text, m), <<",", " ">>)
                     /\ DictsFor(Drop(text, m + 2), pgs, k + 1, n)

FigureCall == <<"c", "h", "a", "r", "t", "s", ".", "C", "h", "a", "r", "t",
                "F", "i", "g", "u", "r", "e", "(">>

FigureCodeForm(text, pgs) ==
    /\ StartsWith(text, FigureCall)
    /\ Len(text) > Len(FigureCall)
    /\ text[Len(text)] = ")"
    /\ DictsFor(SubSeq(text, Len(FigureCall) + 1, Len(text) - 1), pgs, 1,
                Len(pgs) - 1)

\* C4: the string get_figure_code returns is 'charts.ChartFigure(' + D1 +
\* ', ' + ... + ', ' + Dn + ')', with one dict literal per series page in
\* page order, n the page count minus one, and Di listing every key of the
\* series_data of page i.
C4_FigureCodeForm ==
    last.handler = "ChartDialog.get_figure_code" =>
        FigureCodeForm(figure_code, pages)

\* C4 witness: code has been generated for two series pages with different
\* series_data, followed by the "+" page
C4_Witness ==
    /\ last.handler = "ChartDialog.get_figure_code"
    /\ Len(pages) = 3
    /\ pages[1].series_data # pages[2].series_data
    /\ Len(figure_code) > Len(FigureCall) + 1

\* C5: get_series_tuple returns a tuple and raises nothing; when the
\* evaluation or the coercion to a tuple fails with TypeError or ValueError
\* (a scalar result among them) the tuple returned is the empty one.
C5_EmptyTupleOnFailure ==
    last.handler = "ChartDialog.get_series_tuple" =>
        /\ exc = None
        /\ result_tuple \in Seq(Seq(Alphabet \cup Range(Digits)))
        /\ evaluation \in {"scalar", "TypeError", "ValueError"} =>
               result_tuple = <<>>

\* C5 witness: get_series_tuple has returned from an evaluation that raised
\* ValueError
C5_Witness ==
    /\ last.handler = "ChartDialog.get_series_tuple"
    /\ evaluation = "ValueError"
    /\ result_tuple = <<>>
    /\ exc = None

\* C6: when figure.draw_chart() raises ValueError in OnDrawChart, the
\* handler returns normally and has not called figure_canvas.draw(); every
\* call of figure_canvas.draw() comes after a draw_chart() that returned.
C6_CanvasDrawnOnlyAfterDrawChart ==
    last.handler = "ChartDialog.OnDrawChart" =>
        LET e == last.effects IN
        /\ (\E k \in 1..Len(e) : e[k] = Eff("figure.draw_chart", 0, "ValueError"))
               => /\ exc = None
                  /\ \A k \in 1..Len(e) : e[k].op # "figure_canvas.draw"
        /\ \A k \in 1..Len(e) :
               e[k].op = "figure_canvas.draw"
                   => \E j \in 1..(k - 1) : e[j] = Eff("figure.draw_chart", 0, "ok")

\* C6 witness: OnDrawChart has returned after draw_chart raised ValueError
C6_Witness ==
    /\ last.handler = "ChartDialog.OnDrawChart"
    /\ exc = None
    /\ \E k \in 1..Len(last.effects) :
           last.effects[k] = Eff("figure.draw_chart", 0, "ValueError")

SeriesHandlers ==
    {"ChartAxisDataPanel.OnXText", "ChartAxisDataPanel.OnYText",
     "ChartAxisLinePanel.OnStyle", "ChartAxisLinePanel.OnWidth",
     "ChartAxisLinePanel.OnColor", "ChartAxisMarkerPanel.OnStyle",
     "ChartAxisMarkerPanel.OnSize", "ChartAxisMarkerPanel.OnEdgeColor",
     "ChartAxisMarkerPanel.OnFaceColor"}

\* the places in a call record at which a DrawChartMsg is posted
Posts(e) ==
    {k \in 1..Len(e) : e[k] = Eff("post_command_event", 0, "DrawChartMsg")}

\* the places in a call record at which series_data of page p is written
Writes(e, p) ==
    {k \in 1..Len(e) : e[k].op = "series_data[]=" /\ e[k].page = p}

\* C7: each of the nine handlers that change a series, and OnSeriesDeleted,
\* posts exactly one DrawChartMsg in an invocation (the queue grows by that
\* one message), and a handler that changes a series posts it after it has
\* written its value into series_data.
C7_OnePostAfterWrite ==
    [][(last'.handler \in SeriesHandlers \cup {"ChartDialog.OnSeriesDeleted"}
        /\ last = NoCall)
       => /\ Cardinality(Posts(last'.effects)) = 1
          /\ queue' = Append(queue, "DrawChartMsg")
          /\ last'.handler \in SeriesHandlers
                 => /\ Writes(last'.effects, last'.page) # {}
                    /\ \A j \in Writes(last'.effects, last'.page) :
                           \A k \in Posts(last'.effects) : j < k]_vars

\* C7 witness: OnXText has stored a text in a series page and has posted
\* its DrawChartMsg
C7_Witness ==
    /\ last.handler = "ChartAxisDataPanel.OnXText"
    /\ pages[last.page].series_data.xdata \in TextInputs
    /\ Posts(last.effects) # {}
    /\ queue # <<>>
    /\ queue[Len(queue)] = "DrawChartMsg"

C9_ChartDataUpToDate ==
    (dstate = "open" /\ queue = <<>> /\ exc = None)
        => chart_data = eval_chart_data(pages).val

\* C10: OnSeriesChanged with the last page selected inserts one PlotPanel
\* with the default series data at the selected index, directly before the
\* former last page; with any other page selected it leaves the page list
\* as it is; in both cases the other pages are as before and the event is
\* skipped.
C10_InsertBeforeLastPage ==
    [][(last'.handler = "ChartDialog.OnSeriesChanged" /\ last = NoCall)
       => LET p == last'.page
              n == Len(pages)
              e == last'.effects
          IN  /\ IF p = n
                 THEN /\ Len(pages') = n + 1
                      /\ pages'[p].kind = "PlotPanel"
                      /\ pages'[p].series_data = DefaultSeriesData
                      /\ \A k \in 1..(p - 1) : pages'[k] = pages[k]
                      /\ pages'[n + 1] = pages[n]
                 ELSE pages' = pages
              /\ Cardinality({k \in 1..Len(e) : e[k].op = "event.Skip"}) = 1
              /\ e[Len(e)].op = "event.Skip"]_vars

\* C10 witness: the "+" page of a notebook with one edited series was
\* selected, and a default series now stands between the two
C10_Witness ==
    /\ last.handler = "ChartDialog.OnSeriesChanged"
    /\ last.page = 2
    /\ Len(pages) = 3
    /\ pages[1].series_data # DefaultSeriesData
    /\ pages[2].series_data = DefaultSeriesData
    /\ pages[3] = PlusPanel

\* C11: in every state reached from the constructor by page selections and
\* page closings the last notebook page is the "+" panel and every other
\* page is a PlotPanel, so that the page count minus one is the number of
\* series pages.
C11_PlusPageLast ==
    dstate = "open" =>
        /\ Len(pages) >= 1
        /\ pages[Len(pages)] = PlusPanel
        /\ \A k \in 1..(Len(pages) - 1) : pages[k].kind = "PlotPanel"

\* two value strings that are equal, or equal once one pair of enclosing
\* parentheses is taken from one of them
SameUpToParens(a, b) ==
    \/ a = b
    \/ a = <<"(">> \o b \o <<")">>
    \/ b = <<"(">> \o a \o <<")">>

\* pgs2 has the pages of pgs1, each series page with the same keys and with
\* values equal up to one pair of enclosing parentheses
SamePages(pgs1, pgs2) ==
    /\ Len(pgs2) = Len(pgs1)
    /\ \A k \in 1..Len(pgs1) :
           /\ pgs2[k].kind = pgs1[k].kind
           /\ DOMAIN pgs2[k].series_data = DOMAIN pgs1[k].series_data
           /\ \A key \in DOMAIN pgs1[k].series_data :
                  SameUpToParens(pgs1[k].series_data[key], pgs2[k].series_data[key])

\* C12: for every dialog state (any number of series, zero included, any
\* stored strings, nested tuples included) the constructor, given the
\* string get_figure_code returned, ends without error and rebuilds the
\* same number of series pages with the same keys and with values equal up
\* to one pair of enclosing parentheses.
C12_RoundTrip ==
    [][(dstate = "closed" /\ dstate' # "closed")
       => /\ exc' = None
          /\ SamePages(pages, pages')]_vars

\* the dict eval_chart_data is to return for a page's series_data
IsEvaluated(d, series_data) ==
    /\ DOMAIN d = DOMAIN series_data
    /\ \A key \in {"xdata", "ydata", "color", "markerfacecolor", "markeredgecolor"} :
           d[key] = get_series_tuple(series_data[key]).val
    /\ \A key \in {"linestyle", "marker"} :
           d[key] = SubSeq(series_data[key], 2, Len(series_data[key]) - 1)
    /\ d["markersize"] = float(series_data["markersize"]).val
    /\ d["linewidth"] = series_data["linewidth"]

\* series pages followed by the "+" page
SeriesThenPlus(pgs) ==
    /\ Len(pgs) >= 1
    /\ pgs[Len(pgs)] = PlusPanel
    /\ \A k \in 1..(Len(pgs) - 1) : pgs[k].kind = "PlotPanel"

C14_PagesUntouched ==
    [][(last = NoCall
        /\ last'.handler \in {"ChartDialog.OnDrawChart", "ChartDialog.get_figure_code"})
       => pages' = pages]_vars

\* C14 witness: a redraw in which draw_chart raised has been handled for a
\* notebook with an edited series page, and the page holds its strings
C14_Witness ==
    /\ last.handler = "ChartDialog.OnDrawChart"
    /\ Len(pages) >= 2
    /\ pages[1].series_data.xdata \in TextInputs
    /\ chart_data[1].xdata = <<pages[1].series_data.xdata>>
    /\ \E k \in 1..Len(last.effects) :
           last.effects[k] = Eff("figure.draw_chart", 0, "ValueError")

\* the key each widget handler is to write
HandlerKey ==
    [h \in SeriesHandlers |->
        CASE h = "ChartAxisDataPanel.OnXText" -> "xdata"
          [] h = "ChartAxisDataPanel.OnYText" -> "ydata"
          [] h = "ChartAxisLinePanel.OnStyle" -> "linestyle"
          [] h = "ChartAxisLinePanel.OnWidth" -> "linewidth"
          [] h = "ChartAxisLinePanel.OnColor" -> "color"
          [] h = "ChartAxisMarkerPanel.OnStyle" -> "marker"
          [] h = "ChartAxisMarkerPanel.OnSize" -> "markersize"
          [] h = "ChartAxisMarkerPanel.OnFaceColor" -> "markerfacecolor"
          [] OTHER -> "markeredgecolor"]

\* C15: a widget handler writes one key, its own, of the series_data of the
\* page its panel belongs to, and leaves every other key of that page and
\* every other page as they were (the sub-panels of a page write to the
\* page's one dictionary, and no other page holds that dictionary).
C15_OneKeyOfOnePage ==
    [][(last = NoCall /\ last'.handler \in SeriesHandlers)
       => LET p == last'.page
              key == HandlerKey[last'.handler]
              e == last'.effects
          IN  /\ Cardinality({k \in 1..Len(e) : e[k].op = "series_data[]="}) = 1
              /\ \E k \in 1..Len(e) : e[k] = Eff("series_data[]=", p, key)
              /\ Len(pages') = Len(pages)
              /\ \A k \in 1..Len(pages) : k # p => pages'[k] = pages[k]
              /\ pages'[p].kind = pages[p].kind
              /\ DOMAIN pages'[p].series_data = DOMAIN pages[p].series_data
              /\ \A key2 \in DOMAIN pages[p].series_data :
                     IF key2 = key
                     THEN pages'[p].series_data[key2] \in HandlerValues[key]
                     ELSE pages'[p].series_data[key2] = pages[p].series_data[key2]]_vars

\* C15 witness: OnSize has written the marker size of one of two series
\* pages, and the other page holds the default size
C15_Witness ==
    /\ last.handler = "ChartAxisMarkerPanel.OnSize"
    /\ Len(pages) = 3
    /\ \E p \in {1, 2} :
           /\ last.page = p
           /\ pages[p].series_data.markersize \in HandlerValues["markersize"]
           /\ pages[3 - p].series_data.markersize = DefaultSeriesData.markersize

\* C16: the constructor leaves the notebook with n series pages followed by
\* the "+" page and with exactly one DrawChartMsg posted; for a code that
\* starts with "charts.", n is the number of series dicts of the code and
\* each page holds the key/value strings of its dict (the code is, dict by
\* dict, the listing of the pages' values); for any other code n = 1 and the
\* page holds the defaults.
C16_ConstructedNotebook ==
    last.handler = "ChartDialog.__init__" =>
        /\ exc = None
        /\ dstate = "open"
        /\ queue = <<"DrawChartMsg">>
        /\ SeriesThenPlus(pages)
        /\ IF StartsWith(code, ChartsPrefix)
           THEN FigureCodeForm(code, pages)
           ELSE pages = <<[kind |-> "PlotPanel", series_data |-> DefaultSeriesData],
                          PlusPanel>>

====
